---- MODULE Spec2Model ----
(***************************************************************************)
(* A model of the dense tiler (tiledb/sm/query/dense_tiler.{h,cc}).        *)
(*                                                                         *)
(* A DenseTiler is built from an array schema, a unary subarray and one    *)
(* source buffer per attribute.  get_tile(id, name, tile) initialises the  *)
(* destination tile, fills it with the attribute's fill value and copies   *)
(* the cells of the subarray that fall in tile `id` into it, one slab at a *)
(* time, following copy_plan(id).                                          *)
(*                                                                         *)
(* Vectors are functions over 0..n-1 so that indices read as in the code.  *)
(* uint64_t values are kept as integers: a negative integer v stands for   *)
(* the wrapped value 2^64 + v (addition and multiplication agree with the  *)
(* arithmetic modulo 2^64 under this reading; comparisons go through       *)
(* U64Gt).                                                                 *)
(***************************************************************************)
EXTENDS Integers, Sequences, FiniteSets, TLC

(***************************************************************************)
(* Bounds of the model.                                                    *)
(***************************************************************************)
\* number of cells of every dimension's domain in the small schemas
DomLen == 3
\* largest tile extent of the small schemas
MaxExt == 3
\* largest number of per-cell writes of one fill that the tile rejects
MaxFail == 1
\* width in bits of the domain type T of the schemas whose domain reaches
\* the limits of T (int32_t scaled down)
TBits == 4

(***************************************************************************)
(* Program constants.                                                      *)
(***************************************************************************)
\* fill_tile: uint64_t batch_cell_num = 1000000
batch_cell_num == 1000000

Layouts == {"ROW_MAJOR", "COL_MAJOR"}

\* the numbers of dimensions of the schemas
DimNums == {1, 2}

\* The names get_tile is called with: "a" is a fixed-sized attribute with a
\* source buffer, "v" is a var-sized attribute and "foo" is a name the
\* schema does not know.
Names == {"a", "v", "foo"}

Min(x, y) == IF x <= y THEN x ELSE y
Max(x, y) == IF x >= y THEN x ELSE y

\* C++ integer division (truncation toward zero).
TruncDiv(x, y) ==
  IF (x >= 0) = (y > 0) THEN (IF x >= 0 THEN x ELSE 0 - x) \div (IF y > 0 THEN y ELSE 0 - y)
  ELSE 0 - ((IF x >= 0 THEN x ELSE 0 - x) \div (IF y > 0 THEN y ELSE 0 - y))


\* a > b on uint64_t values (a negative integer stands for 2^64 + v).
U64Gt(a, b) ==
  IF (a < 0) = (b < 0) THEN a > b ELSE a < 0

RECURSIVE Prod(_, _, _)
\* product of f[lo..hi]
Prod(f, lo, hi) == IF lo > hi THEN 1 ELSE f[lo] * Prod(f, lo + 1, hi)

RECURSIVE Sum(_, _, _)
\* sum of f[lo..hi]
Sum(f, lo, hi) == IF lo > hi THEN 0 ELSE f[lo] + Sum(f, lo + 1, hi)

(***************************************************************************)
(* The schemas and subarrays the tiler is built from.                      *)
(***************************************************************************)
\* low end of the domain of dimension d: -2, 1, 4 (a negative, a positive)
DomStart(d) == 3 * d - 2

Ranges(lo, hi) == {r \in (lo..hi) \X (lo..hi) : r[1] <= r[2]}

\* the unary subarrays inside the domain of a small schema of D dimensions
Subarrays(D) ==
  { s \in [0..D-1 -> Ranges(DomStart(0), DomStart(D-1) + DomLen - 1)] :
      \A d \in 0..D-1 : /\ s[d][1] >= DomStart(d)
                        /\ s[d][2] <= DomStart(d) + DomLen - 1 }

\* a schema of D dimensions, each domain of len cells, with the given
\* extents and layouts, a subarray, and the names of the buffers map (one
\* buffer, for attribute a, unless stated otherwise); the domain type T is
\* int32_t and the build is one whose signed arithmetic wraps, unless
\* stated otherwise
Config(D, len, ext, to, co, sub, sl) ==
  [buffers     |-> {"a"},
   tbits       |-> 32,
   trapv       |-> FALSE,
   dim_num     |-> D,
   dom         |-> [d \in 0..D-1 |-> <<DomStart(d), DomStart(d) + len - 1>>],
   tile_extent |-> ext,
   tile_order  |-> to,
   cell_order  |-> co,
   sub         |-> sub,
   sub_layout  |-> sl]

VARIABLES
  cfg,                      \* array_schema_, subarray_ and buffers_ (borrowed)
  tile_num_,
  sub_tile_coord_offsets_,
  first_sub_tile_coords_,
  tile_strides_el_,
  sub_strides_el_,
  tile,                     \* the destination tile of the call
  pc,                       \* position of the get_tile call
  call,                     \* the locals of the get_tile call
  tile2,                    \* a second, concurrent get_tile call on the same
  pc2,                      \* tiler, with its own tile and locals, while the
  call2                     \* thread that runs it is not the one stepping

gvars == <<cfg, tile_num_, sub_tile_coord_offsets_, first_sub_tile_coords_,
           tile_strides_el_, sub_strides_el_>>
\* the call of the thread that is not stepping
parked == <<tile2, pc2, call2>>
vars == <<cfg, tile_num_, sub_tile_coord_offsets_, first_sub_tile_coords_,
          tile_strides_el_, sub_strides_el_, tile, pc, call, tile2, pc2, call2>>

(***************************************************************************)
(* The collaborators: schema, domain, attribute.                           *)
(***************************************************************************)
dim_num == cfg.dim_num

\* The range of T (a signed type of cfg.tbits bits, not promoted to int),
\* and the value a T result takes in a build whose signed arithmetic wraps.
TMax == (2 ^ (cfg.tbits - 2) - 1) * 2 + 1
TMin == 0 - TMax - 1
InT(x) == TMin <= x /\ x <= TMax
TWrap(x) == IF InT(x) THEN x ELSE ((x - TMin) % (2 ^ cfg.tbits)) + TMin
Dims == 0 .. dim_num - 1
dom_start(d) == cfg.dom[d][1]
tile_extent(d) == cfg.tile_extent[d]
sub_lo(d) == cfg.sub[d][1]
sub_hi(d) == cfg.sub[d][2]

is_attr(name) == name \in {"a", "v"}
var_size(name) == name = "v"
cell_size(name) == IF name = "a" THEN 2 ELSE 1

\* Dimension::tile_num(range): tiles of the dimension's grid the range meets
dimension_tile_num(d) ==
  (sub_hi(d) - dom_start(d)) \div tile_extent(d)
    - (sub_lo(d) - dom_start(d)) \div tile_extent(d) + 1

\* Domain::tile_num(ndrange)
domain_tile_num == Prod([d \in Dims |-> dimension_tile_num(d)], 0, dim_num - 1)

\* Domain::cell_num_per_tile()
cell_num_per_tile == Prod(cfg.tile_extent, 0, dim_num - 1)

\* number of cells of the subarray (elements of each source buffer)
sub_cell_num == Prod([d \in Dims |-> sub_hi(d) - sub_lo(d) + 1], 0, dim_num - 1)


\* utils::geometry::intersection on one dimension: clip r1 to r2
intersection(r1, r2) == <<Max(r1[1], r2[1]), Min(r1[2], r2[2])>>

(***************************************************************************)
(* The constructor: the geometry computed once from schema and subarray.   *)
(***************************************************************************)
calculate_tile_num == domain_tile_num

RECURSIVE row_coord_offset(_)
\* ROW_MAJOR: push_back(1); for d = dim_num-2 .. 0:
\*   push_back(back() * dimension(d)->tile_num(subarray[d])); then reverse
row_coord_offset(d) ==
  IF d = dim_num - 1 THEN 1
  ELSE row_coord_offset(d + 1) * dimension_tile_num(d)

RECURSIVE col_coord_offset(_)
\* COL_MAJOR: push_back(1); for d = 1 .. dim_num-1:
\*   push_back(back() * dimension(d)->tile_num(subarray[d]))
col_coord_offset(d) ==
  IF d = 0 THEN 1
  ELSE col_coord_offset(d - 1) * dimension_tile_num(d)

calculate_subarray_tile_coord_offsets ==
  IF cfg.tile_order = "ROW_MAJOR"
  THEN [d \in Dims |-> row_coord_offset(d)]
  ELSE [d \in Dims |-> col_coord_offset(d)]

\* (sub_start - dom_start) / tile_extent, computed in T and stored in a
\* uint64_t
calculate_first_sub_tile_coords ==
  [d \in Dims |-> TruncDiv(TWrap(sub_lo(d) - dom_start(d)), tile_extent(d))]

RECURSIVE row_strides(_, _)
\* s[dim_num-1] = 1; s[d] = s[d+1] * len[d+1]
row_strides(len, d) ==
  IF d = dim_num - 1 THEN 1 ELSE row_strides(len, d + 1) * len[d + 1]

RECURSIVE col_strides(_, _)
\* s[0] = 1; s[d] = s[d-1] * len[d-1]
col_strides(len, d) ==
  IF d = 0 THEN 1 ELSE col_strides(len, d - 1) * len[d - 1]

\* the tile strides follow the cell order of the schema
calculate_tile_strides ==
  IF cfg.cell_order = "ROW_MAJOR"
  THEN [d \in Dims |-> row_strides(cfg.tile_extent, d)]
  ELSE [d \in Dims |-> col_strides(cfg.tile_extent, d)]

\* auto sub_extent = sub_range_end - sub_range_start + 1, computed in T
sub_extents == [d \in Dims |-> TWrap(sub_hi(d) - sub_lo(d) + 1)]

\* the subarray strides follow the layout of the subarray
calculate_sub_strides ==
  IF cfg.sub_layout = "ROW_MAJOR"
  THEN [d \in Dims |-> row_strides(sub_extents, d)]
  ELSE [d \in Dims |-> col_strides(sub_extents, d)]

(***************************************************************************)
(* Tile-id resolver.                                                       *)
(***************************************************************************)
RECURSIVE row_tmp_idx(_, _)
\* tmp_idx on entry to iteration d of the ROW_MAJOR loop (d = 0, 1, ...)
row_tmp_idx(id, d) ==
  IF d = 0 THEN id
  ELSE row_tmp_idx(id, d - 1) % sub_tile_coord_offsets_[d - 1]

RECURSIVE col_tmp_idx(_, _)
\* tmp_idx on entry to iteration d of the COL_MAJOR loop (d = dim_num-1, ...)
col_tmp_idx(id, d) ==
  IF d = dim_num - 1 THEN id
  ELSE col_tmp_idx(id, d + 1) % sub_tile_coord_offsets_[d + 1]

tile_coords_in_sub(id) ==
  IF cfg.tile_order = "ROW_MAJOR"
  THEN [d \in Dims |-> row_tmp_idx(id, d) \div sub_tile_coord_offsets_[d]]
  ELSE [d \in Dims |-> col_tmp_idx(id, d) \div sub_tile_coord_offsets_[d]]

tile_subarray(id) ==
  LET tile_coords_in_dom ==
        [d \in Dims |-> tile_coords_in_sub(id)[d] + first_sub_tile_coords_[d]]
      \* ret[d][0]: a uint64_t sum narrowed to T
      lo(d) == TWrap(tile_coords_in_dom[d] * tile_extent(d) + dom_start(d))
      \* ret[d][1] = ret[d][0] + tile_extent - 1, computed in T
  IN  [d \in Dims |-> <<lo(d), TWrap(lo(d) + tile_extent(d) - 1)>>]

(***************************************************************************)
(* Copy-plan builder.                                                      *)
(***************************************************************************)
\* the vector built by push_back of the ranges of dimensions from..to
push_ranges(sit, from, to) ==
  [i \in 0 .. (to - from) |-> <<0, TWrap(sit[from + i][2] - sit[from + i][1])>>]

\* the test that lets dimension k be absorbed into the contiguous run
fuse_test(sit, k) ==
  /\ TWrap(sit[k][2] - sit[k][1] + 1) = tile_extent(k)
  /\ sit[k][1] = sub_lo(k)
  /\ sit[k][2] = sub_hi(k)

RECURSIVE row_last_d(_, _)
\* value of last_d when the ROW_MAJOR loop (from dim_num-2 down) ends
row_last_d(sit, last_d) ==
  IF last_d >= 0 /\ fuse_test(sit, last_d + 1)
  THEN row_last_d(sit, last_d - 1) ELSE last_d

RECURSIVE col_last_d(_, _)
\* value of last_d when the COL_MAJOR loop (from 1 up) ends
col_last_d(sit, last_d) ==
  IF last_d < dim_num /\ fuse_test(sit, last_d - 1)
  THEN col_last_d(sit, last_d + 1) ELSE last_d

\* The differences and widths are computed in T before they meet a
\* uint64_t.
copy_plan(id) ==
  LET tile_sub    == tile_subarray(id)
      sub_in_tile == [d \in Dims |-> intersection(cfg.sub[d], tile_sub[d])]
      width       == [d \in Dims |->
                        TWrap(sub_in_tile[d][2] - sub_in_tile[d][1] + 1)]
      sub_start   == Sum([d \in Dims |->
                            TWrap(sub_in_tile[d][1] - sub_lo(d))
                              * sub_strides_el_[d]],
                         0, dim_num - 1)
      tile_start  == Sum([d \in Dims |->
                            TWrap(sub_in_tile[d][1] - tile_sub[d][1])
                              * tile_strides_el_[d]],
                         0, dim_num - 1)
      rl == row_last_d(sub_in_tile, dim_num - 2)
      cl == col_last_d(sub_in_tile, 1)
      shape ==
        IF dim_num = 1
        THEN [copy_el |-> width[0], dim_ranges |-> [i \in {0} |-> <<0, 0>>]]
        ELSE IF cfg.sub_layout # cfg.cell_order
        THEN [copy_el |-> 1, dim_ranges |-> push_ranges(sub_in_tile, 0, dim_num - 1)]
        ELSE IF cfg.cell_order = "ROW_MAJOR"
        THEN [copy_el    |-> Prod(width, rl + 1, dim_num - 1),
              dim_ranges |-> IF rl < 0 THEN [i \in {0} |-> <<0, 0>>]
                             ELSE push_ranges(sub_in_tile, 0, rl)]
        ELSE [copy_el    |-> Prod(width, 0, cl - 1),
              dim_ranges |-> IF cl = dim_num THEN [i \in {0} |-> <<0, 0>>]
                             ELSE push_ranges(sub_in_tile, cl, dim_num - 1)]
  IN  [copy_el_         |-> shape.copy_el,
       dim_ranges_      |-> shape.dim_ranges,
       sub_start_el_    |-> sub_start,
       sub_strides_el_  |-> sub_strides_el_,
       tile_start_el_   |-> tile_start,
       tile_strides_el_ |-> tile_strides_el_]

(***************************************************************************)
(* The values of type T that the tiler computes.  A value outside the      *)
(* range of T is a signed overflow: a build whose arithmetic wraps goes on *)
(* with the wrapped value (TWrap), a build that traps (cfg.trapv) stops.   *)
(***************************************************************************)
\* the dimensions whose subarray extent enters a subarray stride
stride_dims ==
  IF cfg.sub_layout = "ROW_MAJOR" THEN 1 .. dim_num - 1 ELSE 0 .. dim_num - 2

\* the constructor: sub_start - dom_start, and sub_range_end -
\* sub_range_start and the same + 1 of the dimensions that enter a stride
ctor_T_values ==
  {sub_lo(d) - dom_start(d) : d \in Dims}
    \cup {sub_hi(d) - sub_lo(d) : d \in stride_dims}
    \cup {sub_hi(d) - sub_lo(d) + 1 : d \in stride_dims}

\* copy_plan(id): the bounds of the box of tile_subarray and the differences
\* and widths of copy_plan
copy_plan_T_values(id) ==
  LET tile_sub    == tile_subarray(id)
      sub_in_tile == [d \in Dims |-> intersection(cfg.sub[d], tile_sub[d])]
  IN  UNION { { tile_sub[d][1] + tile_extent(d),
                tile_sub[d][1] + tile_extent(d) - 1,
                sub_in_tile[d][1] - sub_lo(d),
                sub_in_tile[d][1] - tile_sub[d][1],
                sub_in_tile[d][2] - sub_in_tile[d][1],
                sub_in_tile[d][2] - sub_in_tile[d][1] + 1 } : d \in Dims }

T_overflow(values) == \E v \in values : ~InT(v)

(***************************************************************************)
(* The destination tile: a byte buffer of `size` bytes with a write cursor.*)
(* Its contents are kept as what was written: `filled` bytes appended at   *)
(* the cursor (all of them fill values of attribute `fill`) and the list   *)
(* `ov` of the positioned writes, each a run of n bytes of the source      *)
(* buffer of `name` starting at byte src, placed at byte off.              *)
(***************************************************************************)
FreshTile ==
  [init |-> FALSE, type |-> "", size |-> 0, cell_size |-> 0, offset |-> 0,
   filled |-> 0, fill |-> "", ov |-> <<>>]

\* a tile that an earlier use left initialised, written and not rewound
UsedTile ==
  [init |-> TRUE, type |-> "INT16", size |-> 4, cell_size |-> 2, offset |-> 2,
   filled |-> 4, fill |-> "a", ov |-> <<>>]

TileInputs == {FreshTile, UsedTile}

schema_type(name) == IF name = "a" THEN "INT16" ELSE "CHAR"

\* Tile::init_unfiltered(format_version, type, tile_size, cell_size, 0)
init_unfiltered(type, tile_size, csize) ==
  [init |-> TRUE, type |-> type, size |-> tile_size, cell_size |-> csize,
   offset |-> 0, filled |-> 0, fill |-> "", ov |-> <<>>]

\* Tile::write(data, nbytes) issued by the fill: nbytes of fill values of
\* `name` appended at the cursor, which advances
write_fill(t, name, nbytes) ==
  [t EXCEPT !.offset = @ + nbytes, !.filled = t.offset + nbytes, !.fill = name]

\* Tile::write(data, offset, nbytes) accepts a run that lies inside the tile
write_in_bounds(t, toff, n) == toff >= 0 /\ n >= 0 /\ toff + n <= t.size

\* Tile::write(data, offset, nbytes): positioned, the cursor stays
write_at(t, name, soff, toff, n) ==
  [t EXCEPT !.ov = Append(@, [off |-> toff, n |-> n, src |-> soff, name |-> name])]

\* Tile::reset_offset()
reset_offset(t) == [t EXCEPT !.offset = 0]

\* a get_tile that never rewinds the tile
skip_reset_offset(t) == t

\* the tile->reset_offset() calls of fill_tile and get_tile
tile_reset_offset(t) == reset_offset(t)

\* buffers_.find(name) finds an entry
has_buffer(name) == name \in cfg.buffers

\* bytes of the source buffer of a fixed-sized attribute
buffer_size(name) == sub_cell_num * cell_size(name)

\* The byte at position i of tile t: the last positioned write that covers
\* i decides, else the fill, else the byte was never written.  A byte read
\* from beyond the source buffer, or through the pointer of a lookup that
\* found no buffer, is marked "oob".
TileByte(t, i) ==
  LET hits == {k \in 1 .. Len(t.ov) : t.ov[k].off <= i /\ i < t.ov[k].off + t.ov[k].n}
  IN  IF hits # {}
      THEN LET k == CHOOSE h \in hits : \A g \in hits : g <= h
               b == t.ov[k].src + (i - t.ov[k].off)
           IN  IF has_buffer(t.ov[k].name) /\ b >= 0 /\ b < buffer_size(t.ov[k].name)
               THEN <<"buf", t.ov[k].name, b>>
               ELSE <<"oob", "", 0>>
      ELSE IF i < t.filled
      THEN <<"fill", t.fill, i % cell_size(t.fill)>>
      ELSE <<"uninit", "", 0>>

(***************************************************************************)
(* get_tile(id, name, tile)                                                *)
(***************************************************************************)
NoVec == [i \in {} |-> 0]

\* the value of the local copy_plan before it is computed
NoPlan ==
  [copy_el_ |-> 0, dim_ranges_ |-> NoVec, sub_start_el_ |-> 0,
   sub_strides_el_ |-> NoVec, tile_start_el_ |-> 0, tile_strides_el_ |-> NoVec]

IdleCall ==
  [id |-> 0, name |-> "", status |-> "none", copy_plan |-> NoPlan,
   tile_offsets |-> NoVec, sub_offsets |-> NoVec, cell_coords |-> NoVec,
   failed |-> FALSE, late |-> FALSE, after_error |-> FALSE, mixed |-> FALSE]

\* the set-up of the tiler, the tile and the call once cfg is chosen
Construct ==
  /\ tile_num_ = calculate_tile_num
  /\ sub_tile_coord_offsets_ = calculate_subarray_tile_coord_offsets
  /\ first_sub_tile_coords_ = calculate_first_sub_tile_coords
  /\ tile_strides_el_ = calculate_tile_strides
  /\ sub_strides_el_ = calculate_sub_strides
  /\ tile \in TileInputs
  /\ pc = "idle"
  /\ call = IdleCall

\* a single thread calls get_tile: there is no second call
OneCall ==
  /\ tile2 = FreshTile
  /\ pc2 = "off"
  /\ call2 = IdleCall

Init ==
  \* small schemas: every extent in 1..MaxExt, every unary subarray inside
  \* the domain, every combination of the three layouts
  /\ \E D \in DimNums : \E sub \in Subarrays(D) : \E ext \in [0..D-1 -> 1..MaxExt] :
       \E to \in Layouts, co \in Layouts, sl \in Layouts :
         cfg = Config(D, DomLen, ext, to, co, sub, sl)
  /\ Construct
  /\ OneCall

\* the checks that open get_tile
checks_ok(id, name) == id < tile_num_ /\ is_attr(name) /\ ~var_size(name)

\* The call and its checks: a bad id, an unknown name or a var-sized
\* attribute return an error before the tile is touched.
GetTile(id, name) ==
  /\ pc = "idle"
  /\ call' = [call EXCEPT !.id = id, !.name = name,
                          !.status = IF checks_ok(id, name) THEN "none" ELSE "Error"]
  /\ pc' = IF checks_ok(id, name) THEN "init" ELSE "returned"
  /\ UNCHANGED <<gvars, tile, parked>>

\* init_tile: RETURN_NOT_OK(tile->init_unfiltered(...))
InitTile(ok) ==
  /\ pc = "init"
  /\ IF ok
     THEN /\ tile' = init_unfiltered(schema_type(call.name),
                                     cell_num_per_tile * cell_size(call.name),
                                     cell_size(call.name))
          /\ pc' = "fill"
          /\ call' = call
     ELSE /\ tile' = tile
          /\ pc' = "returned"
          /\ call' = [call EXCEPT !.status = "Error", !.failed = TRUE]
  /\ UNCHANGED <<gvars, parked>>


\* fill_tile: the batch arithmetic
fill_size(name) == cell_size(name)
last_batch_cell_num == cell_num_per_tile % batch_cell_num
batch_num == cell_num_per_tile \div 1000000 + (IF last_batch_cell_num > 0 THEN 1 ELSE 0)
batch_size(name) == batch_cell_num * fill_size(name)
\* number of tile->write(batch.data(), batch_size) calls
batch_writes == IF batch_num > 1 THEN batch_num - 1 ELSE 0
\* number of tile->write(fill_value, fill_size) calls
cell_writes == IF last_batch_cell_num > 0 THEN last_batch_cell_num ELSE 0

\* the locals of the copy loop as get_tile sets them before the loop
loop_start(id, name) ==
  LET plan == copy_plan(id)
      I    == DOMAIN plan.dim_ranges_
  IN  [copy_plan    |-> plan,
       tile_offsets |-> [i \in I |-> plan.tile_start_el_ * cell_size(name)],
       sub_offsets  |-> [i \in I |-> plan.sub_start_el_ * cell_size(name)],
       cell_coords  |-> [i \in I |-> plan.dim_ranges_[i][1]]]

\* The writes of fill_tile.  They are not checked: fb of the batch writes
\* and fc of the per-cell writes are rejected by the tile (the first ones
\* issued) and the fill goes on.
fill_writes(t, name, fb, fc) ==
  write_fill(t, name, (batch_writes - fb) * batch_size(name)
                        + (cell_writes - fc) * fill_size(name))

FillTile(fb, fc) ==
  /\ pc = "fill"
  /\ fb <= batch_writes
  /\ fc <= cell_writes
  /\ tile' = fill_writes(tile, call.name, fb, fc)
  /\ pc' = "filled"
  /\ call' = [call EXCEPT !.failed = fb + fc > 0,
                          !.late = \/ fb > 0 /\ batch_writes + cell_writes > 1
                                   \/ fc > 0 /\ cell_writes > 1]
  /\ UNCHANGED <<gvars, parked>>

\* a get_tile that turns the tiler's tile strides into byte strides in
\* place instead of in the plan's copy
StartCopyScaleInPlace(ndebug) ==
  /\ pc = "filled"
  /\ IF \/ tile.size # tile.offset /\ ~ndebug
        \/ cfg.trapv /\ T_overflow(copy_plan_T_values(call.id))
     THEN /\ tile' = tile
          /\ pc' = "aborted"
          /\ call' = call
          /\ tile_strides_el_' = tile_strides_el_
     ELSE LET ls == loop_start(call.id, call.name)
          IN  /\ tile' = tile_reset_offset(tile)
              /\ pc' = "copy"
              /\ call' = [call EXCEPT !.copy_plan = ls.copy_plan,
                                      !.tile_offsets = ls.tile_offsets,
                                      !.sub_offsets = ls.sub_offsets,
                                      !.cell_coords = ls.cell_coords]
              /\ tile_strides_el_' =
                   [d \in Dims |-> tile_strides_el_[d] * cell_size(call.name)]
  /\ UNCHANGED <<cfg, tile_num_, sub_tile_coord_offsets_, first_sub_tile_coords_,
                 sub_strides_el_, parked>>

\* The end of fill_tile and the set-up of the copy loop.  The assertion
\* tile->size() == tile->offset() stops a build with assertions
\* (ndebug = FALSE) and is absent from the others; a signed overflow in
\* copy_plan stops a build that traps.
StartCopy(ndebug) ==
  /\ pc = "filled"
  /\ IF \/ tile.size # tile.offset /\ ~ndebug
        \/ cfg.trapv /\ T_overflow(copy_plan_T_values(call.id))
     THEN /\ tile' = tile
          /\ pc' = "aborted"
          /\ call' = call
     ELSE LET ls == loop_start(call.id, call.name)
          IN  /\ tile' = tile_reset_offset(tile)
              /\ pc' = "copy"
              /\ call' = [call EXCEPT !.copy_plan = ls.copy_plan,
                                      !.tile_offsets = ls.tile_offsets,
                                      !.sub_offsets = ls.sub_offsets,
                                      !.cell_coords = ls.cell_coords]
  /\ UNCHANGED <<gvars, parked>>

RECURSIVE advance(_, _, _)
\* "Advance cell coordinates": the new coordinates and last_dim_changed
advance(coords, ranges, k) ==
  IF k < 0 THEN [coords |-> coords, last_dim_changed |-> k]
  ELSE IF U64Gt(coords[k] + 1, ranges[k][2])
       THEN advance([coords EXCEPT ![k] = ranges[k][1]], ranges, k - 1)
       ELSE [coords |-> [coords EXCEPT ![k] = coords[k] + 1], last_dim_changed |-> k]

\* "Update the offsets": offsets[ldc] += strides[ldc] * cell_size, and every
\* entry to its right takes the value of its left neighbour
update_offsets(offs, strides_el, ldc, csize) ==
  [i \in DOMAIN offs |->
     IF i < ldc THEN offs[i] ELSE offs[ldc] + strides_el[ldc] * csize]

\* One iteration of the copy loop on tile t with locals c.  The tile rejects
\* the write when wok is FALSE or the run leaves the tile; a run that leaves
\* the source buffer is a read out of bounds, which stops the program
\* (crash) or copies whatever lies there; so does every run when
\* buffers_.find(name) found no entry and buff was read through the end
\* iterator (the failure of the lookup shows here, at the first use).
copy_slab(t, c, wok, crash) ==
  LET name  == c.name
      plan  == c.copy_plan
      csize == cell_size(name)
      d     == Cardinality(DOMAIN plan.dim_ranges_) - 1
      toff  == c.tile_offsets[d]
      soff  == c.sub_offsets[d]
      n     == plan.copy_el_ * csize
      oob   == \/ ~has_buffer(name)
               \/ n > 0 /\ (soff < 0 \/ soff + n > buffer_size(name))
      adv   == advance(c.cell_coords, plan.dim_ranges_, d)
      ldc   == adv.last_dim_changed
  IN  IF ~wok \/ ~write_in_bounds(t, toff, n)
      THEN [tile |-> t, pc |-> "returned",
            call |-> [c EXCEPT !.status = "Error", !.late = c.failed, !.failed = TRUE]]
      ELSE IF oob /\ crash
      THEN [tile |-> t, pc |-> "crashed", call |-> c]
      ELSE IF ldc < 0
      THEN [tile |-> tile_reset_offset(write_at(t, name, soff, toff, n)),
            pc   |-> "returned",
            call |-> [c EXCEPT !.status = "Ok", !.late = c.failed]]
      ELSE [tile |-> write_at(t, name, soff, toff, n),
            pc   |-> "copy",
            call |-> [c EXCEPT
                        !.late = c.failed,
                        !.cell_coords = adv.coords,
                        !.tile_offsets =
                           update_offsets(@, plan.tile_strides_el_, ldc, csize),
                        !.sub_offsets =
                           update_offsets(@, plan.sub_strides_el_, ldc, csize)]]

CopySlab(wok, crash) ==
  /\ pc = "copy"
  /\ LET r == copy_slab(tile, call, wok, crash)
     IN  /\ tile' = r.tile
         /\ pc' = r.pc
         /\ call' = r.call
  /\ UNCHANGED <<gvars, parked>>

\* The caller takes the status and comes back with a tile for its next
\* call; after_error records that this is the tile object, untouched since,
\* of a call that the checks of get_tile refused.
Return ==
  /\ pc = "returned"
  /\ pc' = "idle"
  /\ tile' \in TileInputs
  /\ call' = [IdleCall EXCEPT
                !.after_error = /\ ~checks_ok(call.id, call.name)
                                /\ tile' = tile]
  /\ UNCHANGED <<gvars, parked>>

Next ==
  \/ \E id \in 0 .. tile_num_, name \in Names : GetTile(id, name)
  \/ \E ok \in BOOLEAN : InitTile(ok)
  \/ \E fb \in 0 .. MaxFail, fc \in 0 .. MaxFail : FillTile(fb, fc)
  \/ \E ndebug \in BOOLEAN : StartCopy(ndebug)
  \/ \E wok \in BOOLEAN, crash \in BOOLEAN : CopySlab(wok, crash)
  \/ Return

Spec == Init /\ [][Next]_vars

(***************************************************************************)
(* The same tiler over one-dimensional schemas whose tiles are as large as *)
(* the batch of fill_tile: extents around one and two batches, a domain of *)
(* two tiles, subarrays that start and end at the ends of the tiles.       *)
(***************************************************************************)
FillExtents ==
  {batch_cell_num - 1, batch_cell_num, batch_cell_num + 1,
   2 * batch_cell_num, 2 * batch_cell_num + 1}

InitFill ==
  /\ \E ext \in FillExtents :
       \E sub \in Ranges(0, 3) :
         \E to \in Layouts, co \in Layouts, sl \in Layouts :
           LET at(k) == IF k = 0 THEN DomStart(0)
                        ELSE IF k = 1 THEN DomStart(0) + ext - 1
                        ELSE IF k = 2 THEN DomStart(0) + ext
                        ELSE DomStart(0) + 2 * ext - 1
           IN  cfg = Config(1, 2 * ext, [d \in {0} |-> ext], to, co,
                            [d \in {0} |-> <<at(sub[1]), at(sub[2])>>], sl)
  /\ Construct
  /\ OneCall

SpecFill == InitFill /\ [][Next]_vars

(***************************************************************************)
(* The constructor's check of the buffers map.  One-dimensional schemas,   *)
(* buffers maps with and without a name that is no attribute and with and  *)
(* without a buffer for attribute a, builds with and without assertions.   *)
(***************************************************************************)
BufferMaps == {{"a"}, {"a", "v"}, {"a", "foo"}, {"v"}}

\* for (buff : buffers) assert(array_schema_->is_attr(buff.first))
buffers_ok == \A name \in cfg.buffers : is_attr(name)

\* The constructor in a build with assertions (ndebug = FALSE) or without:
\* a failed assertion stops the program before the initializations, and a
\* build without assertions goes on to them whatever the map holds.
ConstructChecked(ndebug) ==
  IF ~ndebug /\ ~buffers_ok
  THEN /\ tile_num_ = 0
       /\ sub_tile_coord_offsets_ = NoVec
       /\ first_sub_tile_coords_ = NoVec
       /\ tile_strides_el_ = NoVec
       /\ sub_strides_el_ = NoVec
       /\ tile = FreshTile
       /\ pc = "aborted"
       /\ call = IdleCall
  ELSE Construct

InitCtor ==
  /\ \E sub \in Subarrays(1) : \E ext \in [0 .. 0 -> 1 .. MaxExt] :
       \E to \in Layouts, co \in Layouts, sl \in Layouts, B \in BufferMaps :
         cfg = [Config(1, DomLen, ext, to, co, sub, sl) EXCEPT !.buffers = B]
  /\ \E ndebug \in BOOLEAN : ConstructChecked(ndebug)
  /\ OneCall

SpecCtor == InitCtor /\ [][Next]_vars

(***************************************************************************)
(* The same tiler over schemas whose domain reaches the limits of T: a T   *)
(* of TBits bits, a first dimension of two cells and a last dimension      *)
(* whose domain starts at the smallest T and ends at the largest one or    *)
(* one tile before it.  The tiles are large, so that the domain holds few. *)
(***************************************************************************)
WideExtents == {2 ^ (TBits - 1) - 2, 2 ^ (TBits - 1) - 1}

\* The constructor in a build whose signed arithmetic wraps or in one that
\* traps: the trap stops the program in the initializations.
ConstructT ==
  IF cfg.trapv /\ T_overflow(ctor_T_values)
  THEN /\ tile_num_ = 0
       /\ sub_tile_coord_offsets_ = NoVec
       /\ first_sub_tile_coords_ = NoVec
       /\ tile_strides_el_ = NoVec
       /\ sub_strides_el_ = NoVec
       /\ tile = FreshTile
       /\ pc = "aborted"
       /\ call = IdleCall
  ELSE Construct

InitT ==
  /\ \E D \in DimNums, e \in WideExtents, sl \in Layouts, trapv \in BOOLEAN :
       LET lo   == 0 - 2 ^ (TBits - 1)
           last == D - 1
       IN  \E hi \in {0 - lo - 1 - e, 0 - lo - 1} :
           \E r \in Ranges(lo, hi) :
             cfg = [buffers     |-> {"a"},
                    tbits       |-> TBits,
                    trapv       |-> trapv,
                    dim_num     |-> D,
                    dom         |-> [d \in 0 .. last |->
                                      IF d = last THEN <<lo, hi>> ELSE <<0, 1>>],
                    tile_extent |-> [d \in 0 .. last |->
                                      IF d = last THEN e ELSE 2],
                    tile_order  |-> sl,
                    cell_order  |-> sl,
                    sub         |-> [d \in 0 .. last |->
                                      IF d = last THEN r ELSE <<0, 1>>],
                    sub_layout  |-> sl]
  /\ ConstructT
  /\ OneCall

SpecT == InitT /\ [][Next]_vars

(***************************************************************************)
(* Two threads call get_tile on one tiler, each with its own tile.  The    *)
(* call of the thread that steps is in tile, pc, call; the other call is   *)
(* parked in tile2, pc2, call2, and a switch of threads exchanges them, so *)
(* that the steps of the two calls interleave in every order.  The tiles   *)
(* are in-memory tiles whose operations succeed unless a write leaves the  *)
(* tile.                                                                   *)
(***************************************************************************)
\* the positions inside a get_tile call
MidCall == {"init", "fill", "filled", "copy"}

\* a tiler that keeps the offsets of the copy loop in one place for all
\* its calls: the thread that takes over finds the other call's offsets
SwitchSharedOffsets ==
  /\ pc2 # "off"
  /\ pc \notin {"crashed", "aborted"}
  /\ LET m == pc \in MidCall /\ pc2 \in MidCall
     IN  /\ tile' = tile2
         /\ pc' = pc2
         /\ call' = [call2 EXCEPT !.mixed = @ \/ m,
                                  !.tile_offsets = call.tile_offsets,
                                  !.sub_offsets = call.sub_offsets]
         /\ tile2' = tile
         /\ pc2' = pc
         /\ call2' = [call EXCEPT !.mixed = @ \/ m]
  /\ UNCHANGED gvars

\* The other thread takes over.  Each call keeps its own tile and its own
\* locals (the stack frame of get_tile); mixed records that the two calls
\* were both under way when the threads switched.
Switch ==
  /\ pc2 # "off"
  /\ pc \notin {"crashed", "aborted"}
  /\ LET m == pc \in MidCall /\ pc2 \in MidCall
     IN  /\ tile' = tile2
         /\ pc' = pc2
         /\ call' = [call2 EXCEPT !.mixed = @ \/ m]
         /\ tile2' = tile
         /\ pc2' = pc
         /\ call2' = [call EXCEPT !.mixed = @ \/ m]
  /\ UNCHANGED gvars

NextPar ==
  \/ \E id \in 0 .. tile_num_, name \in Names : GetTile(id, name)
  \/ InitTile(TRUE)
  \/ FillTile(0, 0)
  \/ \E ndebug \in BOOLEAN : StartCopy(ndebug)
  \/ \E crash \in BOOLEAN : CopySlab(TRUE, crash)
  \/ Return
  \/ Switch

\* two-dimensional schemas with square tiles of side 2 and more and a
\* subarray that starts at the low corner of the domain, tiles ordered as
\* their cells are; both threads are about to call, each with a new tile
InitPar ==
  /\ \E sub \in Subarrays(2) : \E e \in 2 .. MaxExt :
       \E co \in Layouts, sl \in Layouts :
         /\ \A d \in 0 .. 1 : sub[d][1] = DomStart(d)
         /\ cfg = Config(2, DomLen, [d \in 0 .. 1 |-> e], co, co, sub, sl)
  /\ Construct
  /\ tile = FreshTile
  /\ tile2 = FreshTile
  /\ pc2 = "idle"
  /\ call2 = IdleCall

SpecPar == InitPar /\ [][NextPar]_vars


(***************************************************************************)
(* Reference geometry, written without the tiler's strides and offsets.    *)
(***************************************************************************)
\* the cells of a box
BoxCells(box) ==
  { c \in [Dims -> UNION { box[d][1] .. box[d][2] : d \in Dims }] :
      \A d \in Dims : box[d][1] <= c[d] /\ c[d] <= box[d][2] }

RECURSIVE RowIdx(_, _, _, _)
\* row-major rank of the relative coordinates rel in a box of sides len
RowIdx(rel, len, d, acc) ==
  IF d = dim_num THEN acc ELSE RowIdx(rel, len, d + 1, acc * len[d] + rel[d])

RECURSIVE ColIdx(_, _, _, _)
\* column-major rank of the relative coordinates rel in a box of sides len
ColIdx(rel, len, d, acc) ==
  IF d < 0 THEN acc ELSE ColIdx(rel, len, d - 1, acc * len[d] + rel[d])

LinIdx(layout, rel, len) ==
  IF layout = "ROW_MAJOR" THEN RowIdx(rel, len, 0, 0)
  ELSE ColIdx(rel, len, dim_num - 1, 0)

InSub(c) == \A d \in Dims : sub_lo(d) <= c[d] /\ c[d] <= sub_hi(d)

\* position of cell c in the tile whose box is `box`, under the cell order
TilePos(box, c) ==
  LinIdx(cfg.cell_order, [d \in Dims |-> c[d] - box[d][1]], cfg.tile_extent)

\* position of cell c of the subarray in the source buffer
SubPos(c) ==
  LinIdx(cfg.sub_layout, [d \in Dims |-> c[d] - sub_lo(d)],
         [d \in Dims |-> sub_hi(d) - sub_lo(d) + 1])

\* element e of tile t, of the source buffer of name, and the fill element
TileElem(t, e, csize) == [j \in 0 .. csize - 1 |-> TileByte(t, e * csize + j)]
SrcElem(name, e) == [j \in 0 .. cell_size(name) - 1 |-> <<"buf", name, e * cell_size(name) + j>>]
FillElem(name) == [j \in 0 .. cell_size(name) - 1 |-> <<"fill", name, j>>]

\* the tile get_tile(id, name) must produce, element by element
ExpectedElem(box, c, name) ==
  IF InSub(c) THEN SrcElem(name, SubPos(c)) ELSE FillElem(name)

\* the tiles of the grid of dimension d (anchored at the low end of the
\* domain) that meet the subarray, by their index along d
GridTiles(d) ==
  { k \in 0 .. (cfg.dom[d][2] - dom_start(d)) \div tile_extent(d) :
      /\ dom_start(d) + k * tile_extent(d) <= sub_hi(d)
      /\ dom_start(d) + (k + 1) * tile_extent(d) - 1 >= sub_lo(d) }

\* the number of tiles the subarray spans along dimension d
SpanTiles(d) == Cardinality(GridTiles(d))

\* the cells of the box that lie in the subarray
BoxInSub(box) == { c \in BoxCells(box) : InSub(c) }

\* get_tile(id, name) run to its end on a new tile, every tile operation
\* succeeding
RECURSIVE run_copy(_, _)
run_copy(t, c) ==
  LET r == copy_slab(t, c, TRUE, FALSE)
  IN  IF r.pc = "copy" THEN run_copy(r.tile, r.call) ELSE r

get_tile_run(id, name) ==
  LET t0 == init_unfiltered(schema_type(name), cell_num_per_tile * cell_size(name),
                            cell_size(name))
      ls == loop_start(id, name)
  IN  run_copy(tile_reset_offset(fill_writes(t0, name, 0, 0)),
               [IdleCall EXCEPT !.id = id, !.name = name,
                                !.copy_plan = ls.copy_plan,
                                !.tile_offsets = ls.tile_offsets,
                                !.sub_offsets = ls.sub_offsets,
                                !.cell_coords = ls.cell_coords])

\* the elements a slab covers: of the tile (its target) and of the source
SlabTileEls(w, csize) == { e \in w.off \div csize .. (w.off + w.n - 1) \div csize : w.n > 0 }
SlabSrcEls(w, csize) == { e \in w.src \div csize .. (w.src + w.n - 1) \div csize : w.n > 0 }

\* the source elements get_tile(id, "a") reads
SrcRead(id) ==
  LET ov == get_tile_run(id, "a").tile.ov
  IN  UNION { SlabSrcEls(ov[k], cell_size("a")) : k \in 1 .. Len(ov) }

\* the tile elements the slabs of tile t cover
Written(t) == UNION { SlabTileEls(t.ov[k], t.cell_size) : k \in 1 .. Len(t.ov) }

\* number of cells a plan copies
PlanCells(plan) ==
  plan.copy_el_ *
    Prod([i \in DOMAIN plan.dim_ranges_ |->
            plan.dim_ranges_[i][2] - plan.dim_ranges_[i][1] + 1],
         0, Cardinality(DOMAIN plan.dim_ranges_) - 1)

(***************************************************************************)
(* The claims.                                                             *)
(***************************************************************************)

\* C1: when get_tile(id, name, tile) returns Ok (every tile operation having
\* succeeded), every cell c of the box tile_subarray(id) holds, at its
\* position in the tile, the source element of c when c lies in the subarray
\* and the fill value of the attribute when it does not.
C1_TileContents ==
  (pc = "returned" /\ call.status = "Ok" /\ ~call.failed) =>
    LET box == tile_subarray(call.id)
    IN  \A c \in BoxCells(box) :
          TileElem(tile, TilePos(box, c), cell_size(call.name))
            = ExpectedElem(box, c, call.name)


\* C2: the cells copied by the plans of all tile ids add up to the cells of
\* the subarray.
C2_PlanSum ==
  pc = "idle" =>
    Sum([id \in 0 .. tile_num_ - 1 |-> PlanCells(copy_plan(id))], 0, tile_num_ - 1)
      = sub_cell_num

\* C3: two different tile ids read disjoint sets of source elements, and the
\* slabs of one call cover pairwise disjoint ranges of tile elements.
C3_Disjoint ==
  /\ pc = "idle" =>
       \A id1 \in 0 .. tile_num_ - 1 : \A id2 \in 0 .. tile_num_ - 1 :
         id1 # id2 => SrcRead(id1) \cap SrcRead(id2) = {}
  /\ pc \in {"copy", "returned"} =>
       \A i \in 1 .. Len(tile.ov) : \A j \in 1 .. Len(tile.ov) :
         i # j => SlabTileEls(tile.ov[i], tile.cell_size)
                    \cap SlabTileEls(tile.ov[j], tile.cell_size) = {}

\* C4: when get_tile returns Ok (every tile operation having succeeded) the
\* overlay has written copy_el * prod(hi - lo + 1) distinct tile elements,
\* the positions of the cells of tile_subarray(id) that lie in the subarray,
\* and every other element is as the fill left it.
C4_OverlayFrame ==
  (pc = "returned" /\ call.status = "Ok" /\ ~call.failed) =>
    LET box == tile_subarray(call.id)
    IN  /\ Written(tile) = { TilePos(box, c) : c \in BoxInSub(box) }
        /\ Cardinality(Written(tile)) = PlanCells(call.copy_plan)
        /\ \A e \in 0 .. cell_num_per_tile - 1 :
             e \notin Written(tile) =>
               TileElem(tile, e, tile.cell_size) = FillElem(call.name)

\* C5: the plan of every tile id copies as many cells as tile_subarray(id)
\* has in common with the subarray, and at least one.
C5_PlanCount ==
  pc = "idle" =>
    \A id \in 0 .. tile_num_ - 1 :
      /\ PlanCells(copy_plan(id)) = Cardinality(BoxInSub(tile_subarray(id)))
      /\ PlanCells(copy_plan(id)) >= 1

\* C6: the tile ids are in one-to-one correspondence with the grid tiles
\* that meet the subarray: tile_num counts them, the coordinates of an id
\* stay below the number of tiles spanned along each dimension, different
\* ids have different coordinates and the box of an id meets the subarray.
C6_IdsAreTiles ==
  pc = "idle" =>
    /\ tile_num_ = Prod([d \in Dims |-> SpanTiles(d)], 0, dim_num - 1)
    /\ \A id \in 0 .. tile_num_ - 1 :
         /\ \A d \in Dims : tile_coords_in_sub(id)[d] < SpanTiles(d)
         /\ BoxInSub(tile_subarray(id)) # {}
    /\ \A id1 \in 0 .. tile_num_ - 1 : \A id2 \in 0 .. tile_num_ - 1 :
         id1 # id2 => tile_coords_in_sub(id1) # tile_coords_in_sub(id2)

\* C7: sub_tile_coord_offsets are the row- or column-major strides of the
\* tile domain of the subarray: the offset of a dimension is the offset of
\* its faster neighbour times the number of tiles spanned along that
\* neighbour.
C7_CoordOffsets ==
  IF cfg.tile_order = "ROW_MAJOR"
  THEN /\ sub_tile_coord_offsets_[dim_num - 1] = 1
       /\ \A d \in 0 .. dim_num - 2 :
            sub_tile_coord_offsets_[d] = sub_tile_coord_offsets_[d + 1] * SpanTiles(d + 1)
  ELSE /\ sub_tile_coord_offsets_[0] = 1
       /\ \A d \in 1 .. dim_num - 1 :
            sub_tile_coord_offsets_[d] = sub_tile_coord_offsets_[d - 1] * SpanTiles(d - 1)


\* the arguments get_tile must refuse
BadArgs(id, name) == id >= tile_num_ \/ name \notin {"a", "v"} \/ name = "v"

\* C8: a get_tile call with an id >= tile_num, a name that is no attribute
\* or a var-sized attribute returns an error and leaves the tile (and the
\* tiler) exactly as they were; a later valid call on the same tile object
\* (its tile operations succeeding) returns Ok with the tile holding, for
\* every cell of the tile's box, the subarray's value or the fill value.
C8_BadArgsLeaveTile ==
  /\ [][(pc = "idle" /\ pc' # "idle" /\ BadArgs(call'.id, call'.name)) =>
          /\ pc' = "returned"
          /\ call'.status = "Error"
          /\ tile' = tile
          /\ gvars' = gvars]_vars
  /\ []((pc = "returned" /\ call.after_error /\ ~BadArgs(call.id, call.name)
           /\ ~call.failed) =>
          /\ call.status = "Ok"
          /\ LET box == tile_subarray(call.id)
             IN  \A c \in BoxCells(box) :
                   TileElem(tile, TilePos(box, c), cell_size(call.name))
                     = ExpectedElem(box, c, call.name))

\* C8, the part about the refused call alone: it returns an error and
\* leaves the tile and the tiler exactly as they were.
C8_RefusedCall ==
  [][(pc = "idle" /\ pc' # "idle" /\ BadArgs(call'.id, call'.name)) =>
        /\ pc' = "returned"
        /\ call'.status = "Error"
        /\ tile' = tile
        /\ gvars' = gvars]_vars

\* C9: when the fill step ends (its writes having succeeded) every byte of
\* the tile has been written with the fill value and the write cursor is at
\* the end of the tile.
C9_FillComplete ==
  (pc = "filled" /\ ~call.failed) =>
    /\ tile.filled = tile.size
    /\ tile.offset = tile.size
    /\ \A i \in {0, tile.size \div 2, tile.size - 1} :
         TileByte(tile, i) = <<"fill", call.name, i % cell_size(call.name)>>

\* C10: once a tile operation has failed in get_tile, get_tile has returned
\* an error and has issued no tile write after the failure.
C10_FailFast ==
  call.failed => (pc = "returned" /\ call.status = "Error" /\ ~call.late)


\* C11: whenever get_tile returns Ok the write cursor of the tile is 0,
\* however many slabs were copied.
C11_CursorReset ==
  (pc = "returned" /\ call.status = "Ok") => tile.offset = 0

\* C11 witness: an Ok return after the fill moved the cursor to the end of
\* the tile and more than one slab was copied.
C11_Witness ==
  /\ pc = "returned"
  /\ call.status = "Ok"
  /\ tile.filled = tile.size
  /\ tile.size > 0
  /\ Len(tile.ov) >= 2
  /\ tile.offset = 0


\* byte i of tile t was written by the fill or by a slab
Covered(t, i) ==
  \/ i < t.filled
  \/ \E k \in 1 .. Len(t.ov) : t.ov[k].off <= i /\ i < t.ov[k].off + t.ov[k].n

\* Every byte of tile t is determined by the fill value and the source
\* buffer of `name`: no byte was left as the tile's memory happened to be
\* (the lowest such byte would be byte `filled` or the byte after a slab),
\* and no slab was read from outside the source buffer of `name`.
Determined(t, name) ==
  /\ \A i \in {t.filled} \cup {t.ov[k].off + t.ov[k].n : k \in 1 .. Len(t.ov)} :
       (0 <= i /\ i < t.size) => Covered(t, i)
  /\ \A k \in 1 .. Len(t.ov) :
       /\ t.ov[k].name = name
       /\ t.ov[k].n > 0 => (t.ov[k].src >= 0 /\ t.ov[k].src + t.ov[k].n <= buffer_size(name))

\* C12: the bytes of a tile that a successful get_tile(id, name, tile)
\* produced (its tile operations succeeding) are a function of the schema,
\* the subarray, the buffer of `name` and id: whatever tile the call was
\* given and whatever calls came before, the tile equals the one the same
\* call produces on its own, and each of its bytes is a fill byte or a byte
\* of the buffer of `name`.
C12_Deterministic ==
  (pc = "returned" /\ call.status = "Ok" /\ ~call.failed) =>
    /\ tile = get_tile_run(call.id, call.name).tile
    /\ Determined(tile, call.name)


\* what a get_tile call that has returned would have returned had it run
\* alone: refused by the checks, or the status and the tile of get_tile_run
AsAlone(t, c) ==
  IF checks_ok(c.id, c.name)
  THEN LET r == get_tile_run(c.id, c.name)
       IN  c.status = r.call.status /\ t = r.tile
  ELSE c.status = "Error" /\ t \in TileInputs

C17_CtorRejects ==
  (\E name \in cfg.buffers : name \notin {"a", "v"}) => pc = "aborted"


\* C14: after construction no step of get_tile, whether it succeeds or
\* fails, changes tile_num, first_sub_tile_coords, tile_strides_el,
\* sub_strides_el, sub_tile_coord_offsets, the schema, the subarray or the
\* buffers map: the fields stay as the constructor computed them, and the
\* destination tile and the call's own locals are all that a step changes.
C14_Frame ==
  /\ [][gvars' = gvars]_vars
  /\ []( /\ tile_num_ = calculate_tile_num
         /\ sub_tile_coord_offsets_ = calculate_subarray_tile_coord_offsets
         /\ first_sub_tile_coords_ = calculate_first_sub_tile_coords
         /\ tile_strides_el_ = calculate_tile_strides
         /\ sub_strides_el_ = calculate_sub_strides
         /\ cfg.buffers = {"a"} )

\* C14 witness: a get_tile call on a two-dimensional schema has copied a
\* slab into the tile and then failed in a tile write (get_tile in
\* failure, after it changed the tile), and the fields are as built.
C14_Witness ==
  /\ pc = "returned"
  /\ call.failed
  /\ call.status = "Error"
  /\ Len(tile.ov) >= 1
  /\ tile_strides_el_ = calculate_tile_strides
  /\ dim_num = 2


\* the subarray is the whole domain and every dimension of the domain is a
\* whole number of tiles
WholeAligned ==
  \A d \in Dims :
    /\ cfg.sub[d] = cfg.dom[d]
    /\ (cfg.dom[d][2] - cfg.dom[d][1] + 1) % tile_extent(d) = 0

\* C15: when the subarray is the whole domain and the domain is a whole
\* number of tiles in every dimension, get_tile succeeds for every id below
\* tile_num (its tile operations succeeding) and every element of the tile
\* it produces is the element of the source buffer with the same
\* coordinates: none is left at the fill value.
C15_RoundTrip ==
  WholeAligned =>
    /\ (pc = "returned" /\ call.status = "Ok" /\ ~call.failed) =>
         LET box == tile_subarray(call.id)
         IN  \A c \in BoxCells(box) :
               /\ InSub(c)
               /\ TileElem(tile, TilePos(box, c), cell_size(call.name))
                    = SrcElem(call.name, SubPos(c))
    /\ pc = "idle" =>
         \A id \in 0 .. tile_num_ - 1 : get_tile_run(id, "a").call.status = "Ok"


\* cell c lies in the domain
InDom(c) == \A d \in Dims : cfg.dom[d][1] <= c[d] /\ c[d] <= cfg.dom[d][2]

\* C16: a tile that a successful get_tile produced (its tile operations
\* succeeding) has size cells_per_tile * cell_size and element size
\* cell_size, whatever the id, also when its box reaches past the end of
\* the domain or of the subarray; its cells beyond the domain hold the
\* fill value.
C16_TileSize ==
  (pc = "returned" /\ call.status = "Ok" /\ ~call.failed) =>
    /\ tile.size = Prod(cfg.tile_extent, 0, dim_num - 1) * cell_size(call.name)
    /\ tile.cell_size = cell_size(call.name)
    /\ LET box == tile_subarray(call.id)
       IN  \A c \in BoxCells(box) :
             ~InDom(c) =>
               TileElem(tile, TilePos(box, c), cell_size(call.name))
                 = FillElem(call.name)

\* C18: once the tiler is constructed, first_sub_tile_coords[d] is the floor
\* of (sub_lo[d] - dom_lo[d]) / ext[d] in every dimension: it is not
\* negative and the tile it names starts at or before sub_lo[d] and ends at
\* or after it, whatever the sign of the bounds of the domain.
C18_FirstTileCoords ==
  pc # "aborted" =>
    \A d \in Dims :
      LET first == first_sub_tile_coords_[d]
          ext   == cfg.tile_extent[d]
          lo    == cfg.dom[d][1]
      IN  /\ first = (cfg.sub[d][1] - lo) \div ext
          /\ first >= 0
          /\ first * ext + lo <= cfg.sub[d][1]
          /\ cfg.sub[d][1] < (first + 1) * ext + lo

\* s is the element stride vector of a box with side lengths len laid out
\* in the given order
IsStrideVector(s, len, order) ==
  IF order = "ROW_MAJOR"
  THEN /\ s[dim_num - 1] = 1
       /\ \A d \in 0 .. dim_num - 2 : s[d] = s[d + 1] * len[d + 1]
  ELSE /\ s[0] = 1
       /\ \A d \in 1 .. dim_num - 1 : s[d] = s[d - 1] * len[d - 1]

\* C19: once the tiler is constructed, tile_strides_el is the row- or
\* column-major stride vector of a box whose sides are the tile extents,
\* sub_strides_el is the stride vector, under the layout of the subarray,
\* of a box whose sides are the lengths sub_hi[d] - sub_lo[d] + 1 of the
\* subarray, and copy_plan(id) returns both vectors as they are for every id.
C19_Strides ==
  pc # "aborted" =>
    /\ IsStrideVector(tile_strides_el_, cfg.tile_extent, cfg.cell_order)
    /\ IsStrideVector(sub_strides_el_,
                      [d \in Dims |-> cfg.sub[d][2] - cfg.sub[d][1] + 1],
                      cfg.sub_layout)
    /\ \A id \in 0 .. tile_num_ - 1 :
         /\ copy_plan(id).tile_strides_el_ = tile_strides_el_
         /\ copy_plan(id).sub_strides_el_ = sub_strides_el_

\* C20: for every tile id below tile_num and every dimension d, the box
\* tile_subarray(id)[d] starts at
\* (tile_coords_in_sub(id)[d] + first_sub_tile_coords[d]) * ext[d] + dom_lo[d]
\* and ends ext[d] - 1 cells later: it spans exactly ext[d] cells and is
\* clipped neither to the end of the domain nor to the end of the subarray.
C20_TileBox ==
  pc # "aborted" =>
    \A id \in 0 .. tile_num_ - 1 : \A d \in Dims :
      LET box == tile_subarray(id)[d]
          lo  == (tile_coords_in_sub(id)[d] + first_sub_tile_coords_[d])
                   * cfg.tile_extent[d] + cfg.dom[d][1]
      IN  /\ box[1] = lo
          /\ box[2] = lo + cfg.tile_extent[d] - 1
          /\ box[2] - box[1] + 1 = cfg.tile_extent[d]

\* the componentwise intersection of the subarray and the box of tile id
SubInTile(id) ==
  [d \in Dims |-> <<Max(cfg.sub[d][1], tile_subarray(id)[d][1]),
                    Min(cfg.sub[d][2], tile_subarray(id)[d][2])>>]

\* C21: for every tile id below tile_num, copy_plan(id).sub_start_el is the
\* sum over the dimensions of (sub_in_tile[d].lo - sub_lo[d]) *
\* sub_strides_el[d] and tile_start_el the sum of (sub_in_tile[d].lo -
\* tile_subarray(id)[d].lo) * tile_strides_el[d]; so sub_start_el is below
\* the number of cells of the subarray and tile_start_el below the number
\* of cells of a tile.
C21_StartElements ==
  pc # "aborted" =>
    \A id \in 0 .. tile_num_ - 1 :
      LET plan == copy_plan(id)
          sit  == SubInTile(id)
      IN  /\ plan.sub_start_el_ =
               Sum([d \in Dims |-> (sit[d][1] - cfg.sub[d][1]) * sub_strides_el_[d]],
                   0, dim_num - 1)
          /\ plan.tile_start_el_ =
               Sum([d \in Dims |->
                      (sit[d][1] - tile_subarray(id)[d][1]) * tile_strides_el_[d]],
                   0, dim_num - 1)
          /\ 0 <= plan.sub_start_el_
          /\ plan.sub_start_el_
               < Prod([d \in Dims |-> cfg.sub[d][2] - cfg.sub[d][1] + 1], 0, dim_num - 1)
          /\ 0 <= plan.tile_start_el_
          /\ plan.tile_start_el_ < Prod(cfg.tile_extent, 0, dim_num - 1)

\* C22: in one dimension, for every tile id below tile_num and whatever the
\* layouts, copy_plan(id) copies sub_in_tile[0].hi - sub_in_tile[0].lo + 1
\* elements in a single pass, dim_ranges = [[0,0]].
C22_OneDimPlan ==
  (pc # "aborted" /\ dim_num = 1) =>
    \A id \in 0 .. tile_num_ - 1 :
      /\ copy_plan(id).copy_el_ = SubInTile(id)[0][2] - SubInTile(id)[0][1] + 1
      /\ copy_plan(id).dim_ranges_ = [i \in {0} |-> <<0, 0>>]

\* the uint64_t kept as v holds the number x (a negative v stands for the
\* wrapped value 2^64 + v, which is none of the numbers of the claims)
U64Is(v, x) == v >= 0 /\ v = x

\* C23: in more than one dimension, when the layout of the subarray differs
\* from the layout of the cells inside a tile, copy_plan(id) of every tile
\* id below tile_num fuses nothing: copy_el = 1 and dim_ranges has one
\* entry per dimension, [0, sub_in_tile[d].hi - sub_in_tile[d].lo].
C23_NoFusion ==
  (pc # "aborted" /\ dim_num > 1 /\ cfg.sub_layout # cfg.cell_order) =>
    \A id \in 0 .. tile_num_ - 1 :
      LET plan == copy_plan(id)
          sit  == SubInTile(id)
      IN  /\ plan.copy_el_ = 1
          /\ DOMAIN plan.dim_ranges_ = Dims
          /\ \A d \in Dims :
               /\ plan.dim_ranges_[d][1] = 0
               /\ U64Is(plan.dim_ranges_[d][2], sit[d][2] - sit[d][1])

\* the dimensions that a plan over the intersection sit absorbs into one
\* contiguous run: the fastest-varying one, and every next one while all
\* those before it are as wide as the tile and span the whole subarray
FullDim(sit, j) ==
  sit[j][2] - sit[j][1] + 1 = cfg.tile_extent[j] /\ sit[j] = cfg.sub[j]

Absorbed(sit) ==
  IF cfg.cell_order = "ROW_MAJOR"
  THEN {k \in Dims : \A j \in k + 1 .. dim_num - 1 : FullDim(sit, j)}
  ELSE {k \in Dims : \A j \in 0 .. k - 1 : FullDim(sit, j)}

RECURSIVE WidthProd(_, _)
WidthProd(sit, S) ==
  IF S = {} THEN 1
  ELSE LET k == CHOOSE x \in S : TRUE
       IN  (sit[k][2] - sit[k][1] + 1) * WidthProd(sit, S \ {k})

\* C24: in more than one dimension, when the layout of the subarray equals
\* the layout of the cells inside a tile, copy_plan(id) absorbs the
\* fastest-varying dimension and then every next dimension while the ones
\* absorbed before it are as wide as the tile extent and span the whole
\* range of the subarray: copy_el is the product of the widths of the
\* absorbed dimensions, dim_ranges lists [0, width - 1] for the others in
\* increasing order, and dim_ranges = [[0,0]] when none is left.
C24_Fusion ==
  (pc # "aborted" /\ dim_num > 1 /\ cfg.sub_layout = cfg.cell_order) =>
    \A id \in 0 .. tile_num_ - 1 :
      LET plan == copy_plan(id)
          sit  == SubInTile(id)
          A    == Absorbed(sit)
          R    == Dims \ A
          m    == Cardinality(R)
          \* the i-th remaining dimension, in increasing order
          rem(i) == CHOOSE k \in R : Cardinality({x \in R : x < k}) = i
      IN  /\ U64Is(plan.copy_el_, WidthProd(sit, A))
          /\ IF m = 0
             THEN plan.dim_ranges_ = [i \in {0} |-> <<0, 0>>]
             ELSE /\ DOMAIN plan.dim_ranges_ = 0 .. m - 1
                  /\ \A i \in 0 .. m - 1 :
                       /\ plan.dim_ranges_[i][1] = 0
                       /\ U64Is(plan.dim_ranges_[i][2],
                                sit[rem(i)][2] - sit[rem(i)][1])

\* the array dimension that entry k of the dim_ranges of a plan ranges over:
\* a column-major plan that absorbed its leading dimensions keeps the
\* trailing ones
RangeDim(plan, k) ==
  IF dim_num > 1 /\ cfg.sub_layout = cfg.cell_order /\ cfg.cell_order = "COL_MAJOR"
  THEN dim_num - Cardinality(DOMAIN plan.dim_ranges_) + k
  ELSE k

\* the number of index vectors that come before i in row-major order
RECURSIVE RowMajorRank(_, _, _)
RowMajorRank(i, ranges, k) ==
  IF k < 0 THEN 0
  ELSE i[k] + (ranges[k][2] + 1) * RowMajorRank(i, ranges, k - 1)

\* C25: the copy loop of get_tile visits the index vectors over dim_ranges
\* in row-major order and issues one write of copy_el * cell_size bytes for
\* each; the slab of index vector i is read at byte (sub_start_el + sum_k
\* i[k] * sub_strides_el[dim(k)]) * cell_size of the source and written at
\* byte (tile_start_el + sum_k i[k] * tile_strides_el[dim(k)]) * cell_size
\* of the tile, dim(k) being the dimension that entry k of dim_ranges
\* ranges over.
C25_SlabOffsets ==
  (pc = "copy" /\ ~call.failed) =>
    LET plan  == call.copy_plan
        m     == Cardinality(DOMAIN plan.dim_ranges_)
        csize == cell_size(call.name)
        i     == call.cell_coords
    IN  /\ call.sub_offsets[m - 1] =
             (plan.sub_start_el_
                + Sum([k \in 0 .. m - 1 |->
                         i[k] * plan.sub_strides_el_[RangeDim(plan, k)]], 0, m - 1))
               * csize
        /\ call.tile_offsets[m - 1] =
             (plan.tile_start_el_
                + Sum([k \in 0 .. m - 1 |->
                         i[k] * plan.tile_strides_el_[RangeDim(plan, k)]], 0, m - 1))
               * csize
        /\ Len(tile.ov) = RowMajorRank(i, plan.dim_ranges_, m - 1)
        /\ \A w \in 1 .. Len(tile.ov) : tile.ov[w].n = plan.copy_el_ * csize

\* C26: for a signed T of bounded width, every value of type T that the
\* tiler computes stays in the range of T, for every schema and subarray
\* with dom_lo <= sub_lo <= sub_hi <= dom_hi and positive extents: the
\* difference sub_lo[d] - dom_lo[d] and the subarray lengths of the
\* constructor, the bounds of the box of tile_subarray and the differences
\* and widths of copy_plan; so first_sub_tile_coords[d] is never the image
\* of a negative quotient.
C26_NoOverflow ==
  /\ ~T_overflow(ctor_T_values)
  /\ pc # "aborted" =>
       /\ \A id \in 0 .. tile_num_ - 1 : ~T_overflow(copy_plan_T_values(id))
       /\ \A d \in Dims : first_sub_tile_coords_[d] >= 0

\* C27: every slab copy that get_tile issues for a tile id below tile_num
\* stays in bounds: the bytes written lie inside the cells_per_tile *
\* cell_size bytes of the tile and the bytes read inside the bytes of the
\* source buffer, one cell_size per cell of the subarray.
C27_SlabsInBounds ==
  pc = "copy" =>
    LET plan  == call.copy_plan
        m     == Cardinality(DOMAIN plan.dim_ranges_)
        csize == cell_size(call.name)
        n     == plan.copy_el_ * csize
        toff  == call.tile_offsets[m - 1]
        soff  == call.sub_offsets[m - 1]
    IN  /\ n >= 0
        /\ 0 <= toff
        /\ toff + n <= Prod(cfg.tile_extent, 0, dim_num - 1) * csize
        /\ 0 <= soff
        /\ soff + n
             <= Prod([d \in Dims |-> cfg.sub[d][2] - cfg.sub[d][1] + 1], 0, dim_num - 1)
                  * csize

\* the number of index vectors of a plan, when every range of the plan ends
\* at a number that the claims can mean (not at a wrapped 2^64 + v)
CountableRanges(plan) ==
  \A k \in DOMAIN plan.dim_ranges_ : plan.dim_ranges_[k][2] >= 0

SlabCount(plan) ==
  Prod([k \in DOMAIN plan.dim_ranges_ |->
          plan.dim_ranges_[k][2] - plan.dim_ranges_[k][1] + 1],
       0, Cardinality(DOMAIN plan.dim_ranges_) - 1)

\* C28: get_tile, called with a tile id below tile_num and a fixed-sized
\* attribute that has a buffer, terminates: it does not stop the program,
\* its copy loop stays below the number of index vectors of dim_ranges, and
\* when every tile write succeeds it has issued exactly that many slab
\* writes when it returns Ok.
C28_Terminates ==
  /\ pc \notin {"crashed", "aborted"}
  /\ (pc = "copy" /\ ~call.failed) =>
       (CountableRanges(call.copy_plan) => Len(tile.ov) < SlabCount(call.copy_plan))
  /\ (pc = "returned" /\ call.status = "Ok" /\ ~call.failed) =>
       /\ CountableRanges(call.copy_plan)
       /\ Len(tile.ov) = SlabCount(call.copy_plan)

\* C29: when the cell order and the tile order of the schema differ, the
\* tiler follows each where it applies: tile_strides_el and the choice of
\* copy_plan between fusing and not fusing follow the cell order, the
\* decoding of a tile id into tile coordinates follows the tile order (id
\* is the rank of its coordinates, in tile order, among the tiles that the
\* subarray spans), and get_tile places every cell of the subarray that
\* lies in the tile of the id at its cell-order position in the tile.
C29_OrdersIndependent ==
  (pc # "aborted" /\ cfg.cell_order # cfg.tile_order) =>
    /\ IsStrideVector(tile_strides_el_, cfg.tile_extent, cfg.cell_order)
    /\ \A id \in 0 .. tile_num_ - 1 :
         /\ dim_num > 1 =>
              ((Cardinality(DOMAIN copy_plan(id).dim_ranges_) = dim_num)
                 <=> (cfg.sub_layout # cfg.cell_order))
         /\ LinIdx(cfg.tile_order, tile_coords_in_sub(id),
                   [d \in Dims |-> SpanTiles(d)]) = id
    /\ (pc = "returned" /\ call.status = "Ok" /\ ~call.failed) =>
         LET box == tile_subarray(call.id)
         IN  \A c \in BoxInSub(box) :
               TileElem(tile, TilePos(box, c), cell_size(call.name))
                 = SrcElem(call.name, SubPos(c))

\* C30: get_tile reads source data only from an entry of the buffers map:
\* called with a valid tile id and a fixed-sized attribute that has no
\* entry, it returns an error; it neither initialises nor fills the tile
\* first, and it never reaches the copy loop.
C30_MissingBuffer ==
  (/\ pc \notin {"idle", "init"}
   /\ call.id < tile_num_
   /\ call.name = "a"
   /\ "a" \notin cfg.buffers) =>
    /\ pc = "returned"
    /\ call.status = "Error"
    /\ tile \in TileInputs

====
